---- MODULE Spec2Model ----
(***************************************************************************)
(* A model of apps/web/hooks/useS3.tsx: the S3Provider drive session       *)
(* (navigation, paginated listing, the local folder index, uploads, file   *)
(* and folder removal, tag editing) and emptyS3Directory.                  *)
(*                                                                         *)
(* A JavaScript string is a sequence of one-character strings, so that     *)
(* split, includes, trim and the regular-expression test are computed.     *)
(***************************************************************************)
EXTENDS Naturals, Sequences, FiniteSets, Bags, TLC

\* ------------------------------------------------------------------ bounds

\* Keys per ListObjectsV2 page (the store's page size).
MaxKeys == 2
\* Folder visits (runs of the set-currentFolder effect) in one behaviour.
MaxVisits == 2
\* Requests one listing run sends inside its while (results.IsTruncated) loop.
MaxLoopRequests == 2
\* Entries of the persisted folder index.
MaxLocalFolders == 2
\* Upload tasks created in one behaviour.
MaxUploads == 2
\* Parts of one upload.
MaxParts == 1
\* Folder visits in a behaviour of the upload specification.
MaxUploadVisits == 1
\* Requests of one tag call that fail.
MaxFailures == 1
\* Tags the file holds when the session starts.
MaxInitialTags == 2

\* --------------------------------------------------------- JavaScript values

\* null / undefined of a string-valued field.
NullStr == <<"null">>

\* An optional list of a response: absent (undefined) when the store sends
\* no element of that name, as the SDK leaves the field unset then.
Opt(items) == [defined |-> items # <<>>, items |-> items]

Min(a, b) == IF a < b THEN a ELSE b

\* String.prototype.startsWith
StartsWith(s, p) == Len(p) <= Len(s) /\ SubSeq(s, 1, Len(p)) = p

\* String.prototype.includes
Includes(s, sub) ==
  \E i \in 0..Len(s) : i + Len(sub) <= Len(s) /\ SubSeq(s, i + 1, i + Len(sub)) = sub

\* Position of the first "/" of s at or after position i, 0 when there is none.
RECURSIVE IndexOfSlash(_, _)
IndexOfSlash(s, i) ==
  IF i > Len(s) THEN 0
  ELSE IF s[i] = "/" THEN i
  ELSE IndexOfSlash(s, i + 1)

\* String.prototype.split("/"): "a/b/" gives <<"a", "b", "">>, "" gives <<"">>.
RECURSIVE Split(_)
Split(s) ==
  LET i == IndexOfSlash(s, 1)
  IN  IF i = 0 THEN <<s>>
      ELSE <<SubSeq(s, 1, i - 1)>> \o Split(SubSeq(s, i + 1, Len(s)))

\* Array.prototype.pop() and shift() of a non-empty array, as values.
Pop(arr) == arr[Len(arr)]
Shift(arr) == arr[1]

\* String.prototype.slice(0, -1)
SliceLast(s) == SubSeq(s, 1, Len(s) - 1)

\* String.prototype.trim, over the one white-space character of the alphabet.
RECURSIVE TrimStart(_)
TrimStart(s) == IF s # <<>> /\ s[1] = " " THEN TrimStart(Tail(s)) ELSE s
RECURSIVE TrimEnd(_)
TrimEnd(s) ==
  IF s # <<>> /\ s[Len(s)] = " " THEN TrimEnd(SubSeq(s, 1, Len(s) - 1)) ELSE s
TrimNothing(s) == s
Trim(s) == TrimEnd(TrimStart(s))

\* decodeURIComponent: %20 and %2F are the escapes of the alphabet; a "%"
\* that starts no escape makes it throw (URIError), given as <<"URIError">>.
RECURSIVE DecodeURIComponent(_)
DecodeURIComponent(s) ==
  IF s = <<>> THEN <<>>
  ELSE IF s[1] # "%"
    THEN LET rest == DecodeURIComponent(Tail(s))
         IN  IF rest = <<"URIError">> THEN rest ELSE <<s[1]>> \o rest
  ELSE IF Len(s) >= 3 /\ s[2] = "2" /\ s[3] \in {"0", "F"}
    THEN LET rest == DecodeURIComponent(SubSeq(s, 4, Len(s)))
         IN  IF rest = <<"URIError">> THEN rest
             ELSE <<IF s[3] = "0" THEN " " ELSE "/">> \o rest
  ELSE <<"URIError">>

\* The code unit of a character: the order of the store's listings.
CharCode(c) ==
  CASE c = " " -> 32 [] c = "#" -> 35 [] c = "%" -> 37 [] c = "/" -> 47
    [] c = "0" -> 48 [] c = "2" -> 50 [] c = "F" -> 70
    [] c = "a" -> 97 [] c = "b" -> 98 [] c = "c" -> 99 [] OTHER -> 127

RECURSIVE StrLess(_, _)
StrLess(s, t) ==
  IF t = <<>> THEN FALSE
  ELSE IF s = <<>> THEN TRUE
  ELSE IF s[1] # t[1] THEN CharCode(s[1]) < CharCode(t[1])
  ELSE StrLess(Tail(s), Tail(t))

RECURSIVE SortStrings(_)
SortStrings(S) ==
  IF S = {} THEN <<>>
  ELSE LET m == CHOOSE a \in S : \A b \in S \ {a} : StrLess(a, b)
       IN  <<m>> \o SortStrings(S \ {m})

\* The elements of a sequence.
Range(seq) == {seq[i] : i \in 1..Len(seq)}

\* Array.prototype.filter with the predicate given as the set of kept values.
RECURSIVE FilterIn(_, _)
FilterIn(seq, keep) ==
  IF seq = <<>> THEN <<>>
  ELSE (IF Head(seq) \in keep THEN <<Head(seq)>> ELSE <<>>) \o FilterIn(Tail(seq), keep)

\* ------------------------------------------------------------------ store

NoDelimiter == <<>>
NoToken == <<>>

\* The object keys a bucket may hold.
KeyUniverse ==
  { <<"a">>, <<"b", "/", "a">>, <<"b", "/", "c">>, <<"b", "/", "b", "/", "a">> }

\* The common prefix a key rolls up into under a delimiter listing of Prefix,
\* NoToken-like <<>> when the key is an immediate child.
RollUp(key, Prefix) ==
  LET rest == SubSeq(key, Len(Prefix) + 1, Len(key))
      i == IndexOfSlash(rest, 1)
  IN  IF i = 0 THEN <<>> ELSE Prefix \o SubSeq(rest, 1, i)

\* list-objects-v2(bucket, prefix, delimiter, continuationToken): one page of
\* at most MaxKeys entries in key order after the token; keys and common
\* prefixes both count as entries. ContinuationToken echoes the request's
\* token; NextContinuationToken is the cursor of the next page.
ListObjectsV2(objs, Prefix, Delimiter, Token) ==
  LET matching == {k \in objs : StartsWith(k, Prefix)}
      rolled == IF Delimiter = NoDelimiter THEN {}
                ELSE {k \in matching : RollUp(k, Prefix) # <<>>}
      keys == matching \ rolled
      prefixes == {RollUp(k, Prefix) : k \in rolled}
      after == {e \in keys \cup prefixes : Token = NoToken \/ StrLess(Token, e)}
      sorted == SortStrings(after)
      page == SubSeq(sorted, 1, Min(MaxKeys, Len(sorted)))
      truncated == Len(sorted) > MaxKeys
  IN  [ Contents |-> Opt(FilterIn(page, keys)),
        CommonPrefixes |-> Opt(FilterIn(page, prefixes)),
        IsTruncated |-> truncated,
        ContinuationToken |-> Token,
        NextContinuationToken |-> IF truncated THEN page[Len(page)] ELSE NoToken ]

\* ------------------------------------------------------------------ state

VARIABLES
  route,          \* the fullPath prop of S3Provider; NullStr before the first render
  currentFolder,  \* useState<DriveFolder>(null)
  folders,        \* useState<DriveFolder[]>(null)
  files,          \* useState<DriveFile[]>(null)
  uploadingFiles, \* useState<UploadingFile[]>([])
  loading,        \* useState(false)
  localStorage,   \* the parsed local_folders_<id> item: the folder index
  objects,        \* the keys the bucket holds
  tagSet,         \* the TagSet of the one file the tag calls are about
  runs,           \* the listing effects whose async body is suspended at a request
  mints,          \* the per-file callbacks suspended at getSignedUrl (a bag)
  tasks,          \* the Upload tasks created by addFile, by id
  walk,           \* the emptyS3Directory invocations that have not returned (a stack)
  walkStatus,     \* the promise of removeFolder: idle | running | returned, or the
                  \* error it rejected with (TypeError | StoreRequestError)
  walkRoot,       \* the Prefix removeFolder passed to emptyS3Directory
  walkHad,        \* the keys the bucket held under that Prefix at the call
  walkLog,        \* the store requests of the walk, in order
  visits,         \* per run of the set-currentFolder effect, how far its listing
                  \* effect is: loading | done (setLoading(false) reached), or the
                  \* error it caught (TypeError | StoreRequestError)
  removing,       \* the removeFile calls suspended at their delete-object request:
                  \* the keys they sent (a bag)
  lastCall,       \* the operation of the latest step, its argument and its outcome
  sent            \* the store requests the latest step sent

vars ==
  << route, currentFolder, folders, files, uploadingFiles, loading, localStorage,
     objects, tagSet, runs, mints, tasks, walk, walkStatus, walkRoot, walkHad, walkLog,
     visits, removing, lastCall, sent >>

sessionVars == << route, currentFolder, folders, files, loading, runs, mints, visits >>
folderVars == << localStorage >>
uploadVars == << uploadingFiles, tasks >>
walkVars == << walk, walkStatus, walkRoot, walkHad, walkLog >>
tagVars == << tagSet >>
removeVars == << removing >>

\* A state cell that holds a list or null.
NullList == [isNull |-> TRUE, items |-> <<>>]
List(items) == [isNull |-> FALSE, items |-> items]

\* ROOT_FOLDER of ./useBucket.
ROOT_FOLDER == [fullPath |-> <<>>, name |-> <<>>, parent |-> NullStr]
NoFolder == [isNull |-> TRUE, folder |-> ROOT_FOLDER]
Folder(f) == [isNull |-> FALSE, folder |-> f]

\* The fullPath props the router passes: the root and two folders.
Routes == { <<>>, <<"b">>, <<"b", "/", "b">> }
\* The names the user types for a new folder.
FolderNames == { <<"b">>, <<"c">> }

Call(op, arg, result) == [op |-> op, arg |-> arg, result |-> result]
\* A step that is no call of the caller: a response, an event, a callback.
Step == Call("step", <<>>, "")

Req(kind, arg) == [kind |-> kind, arg |-> arg]

\* The session right after construction, before the first effect has run.
InitSession ==
  /\ route = NullStr
  /\ currentFolder = NoFolder
  /\ folders = NullList
  /\ files = NullList
  /\ uploadingFiles = <<>>
  /\ loading = FALSE
  /\ localStorage = <<>>
  /\ runs = {}
  /\ mints = EmptyBag
  /\ tasks = <<>>
  /\ walk = <<>>
  /\ walkStatus = "idle"
  /\ walkRoot = <<>>
  /\ walkHad = {}
  /\ walkLog = <<>>
  /\ visits = <<>>
  /\ removing = EmptyBag
  /\ lastCall = Call("init", <<>>, "ok")
  /\ sent = <<>>

\* A session over a bucket that holds any of the keys, none of them tagged.
Init ==
  /\ InitSession
  /\ objects \in SUBSET KeyUniverse
  /\ tagSet = <<>>

\* -------------------------------------------------------------- navigation

\* The folder the set-currentFolder effect builds from a non-root fullPath.
FolderOfRoute(fullPath) ==
  [ fullPath |-> fullPath \o <<"/">>,
    name |-> Pop(Split(fullPath)),
    parent |-> Shift(Split(fullPath)) \o <<"/">> ]

\* Both effects of one render after the fullPath prop changed to p: the
\* set-currentFolder effect, then the listing effect up to its first request.
\* The render that runs the listing effect reads the files the first effect
\* has just set to null.
Navigate(p) ==
  /\ Len(visits) < MaxVisits
  /\ p # route
  /\ route' = p
  /\ files' = NullList
  /\ folders' = NullList
  /\ currentFolder' = IF p = <<>> THEN Folder(ROOT_FOLDER) ELSE Folder(FolderOfRoute(p))
  /\ loading' = TRUE
  /\ IF files'.isNull
       THEN /\ runs' = runs \cup
                 { [ visit |-> Len(visits) + 1, folder |-> currentFolder'.folder,
                     pc |-> "first", token |-> NoToken, loops |-> 0 ] }
            /\ sent' = << Req("list", currentFolder'.folder.fullPath) >>
            /\ visits' = Append(visits, "loading")
       ELSE /\ runs' = runs
            /\ sent' = <<>>
            /\ visits' = Append(visits, "done")
  /\ lastCall' = Call("navigate", p, "ok")
  /\ UNCHANGED << mints, folderVars, uploadVars, walkVars, tagVars, removeVars, objects >>

\* ----------------------------------------------------------- listing effect

\* The DriveFile the effect builds from one entry of Contents. uploadId is 0:
\* the entry comes from a listing, not from an upload of this session.
DriveFileOf(key, folder) ==
  [ fullPath |-> key, name |-> Pop(Split(key)), parent |-> folder.fullPath, uploadId |-> 0 ]

\* The DriveFolder the effect builds from one entry of CommonPrefixes.
DriveFolderOf(prefix, folder) ==
  [ fullPath |-> prefix, name |-> Pop(Split(SliceLast(prefix))), parent |-> folder.fullPath ]

\* results.Contents.forEach(async ...): one callback per entry, each suspended
\* at getSignedUrl before its setFiles.
RECURSIVE SpawnMints(_, _, _)
SpawnMints(bag, contents, folder) ==
  IF contents = <<>> THEN bag
  ELSE SpawnMints(bag (+) SetToBag({DriveFileOf(Head(contents), folder)}), Tail(contents), folder)

\* The filter of the local folder index at a folder visit.
LocalFoldersArray(local, folder, results) ==
  SelectSeq(local, LAMBDA f :
    /\ f.parent = folder.fullPath
    /\ ~(results.CommonPrefixes.defined /\ f.fullPath \in Range(results.CommonPrefixes.items)))

\* setFolders(localFoldersArray), then one setFolders append per CommonPrefix.
MergedFolders(local, folder, results) ==
  LocalFoldersArray(local, folder, results)
    \o (IF results.CommonPrefixes.defined
          THEN [i \in 1..Len(results.CommonPrefixes.items) |->
                  DriveFolderOf(results.CommonPrefixes.items[i], folder)]
          ELSE <<>>)

\* The token of the request the while loop sends after a truncated response.
LoopToken(results) == results.ContinuationToken

SetVisit(v, status) == [visits EXCEPT ![v] = status]

\* catch (err) { console.error(err) }; setLoading(false)
ListingCaught(r, why) ==
  /\ runs' = runs \ {r}
  /\ loading' = FALSE
  /\ visits' = SetVisit(r.visit, why)
  /\ sent' = <<>>
  /\ lastCall' = Step

\* setLoading(false) after the loop
ListingFinished(r) ==
  /\ runs' = runs \ {r}
  /\ loading' = FALSE
  /\ visits' = SetVisit(r.visit, "done")
  /\ sent' = <<>>
  /\ lastCall' = Step

\* The loop condition holds: the next request is sent and the effect suspends.
ListingLoops(r, results) ==
  /\ r.loops < MaxLoopRequests
  /\ runs' = (runs \ {r}) \cup
       { [r EXCEPT !.pc = "loop", !.token = LoopToken(results), !.loops = r.loops + 1] }
  /\ sent' = << Req("list", r.folder.fullPath) >>
  /\ lastCall' = Step
  /\ UNCHANGED << loading, visits >>

\* The first response of a listing effect arrives (lines 350-407).
ListingFirst(r) ==
  /\ r \in runs /\ r.pc = "first"
  /\ \E ok \in BOOLEAN :
       IF ~ok
         THEN ListingCaught(r, "StoreRequestError") /\ UNCHANGED << mints, folders >>
         ELSE LET results == ListObjectsV2(objects, r.folder.fullPath, <<"/">>, NoToken)
              IN  /\ mints' = IF results.Contents.defined
                                THEN SpawnMints(mints, results.Contents.items, r.folder)
                                ELSE mints
                  /\ folders' = List(MergedFolders(localStorage, r.folder, results))
                  /\ IF results.IsTruncated
                       THEN ListingLoops(r, results)
                       ELSE ListingFinished(r)
  /\ UNCHANGED << route, currentFolder, files, folderVars, uploadVars, walkVars, tagVars, removeVars, objects >>

\* A response of the while loop arrives (lines 408-438).
ListingLoop(r) ==
  /\ r \in runs /\ r.pc = "loop"
  /\ \E ok \in BOOLEAN :
       IF ~ok
         THEN ListingCaught(r, "StoreRequestError") /\ UNCHANGED mints
         ELSE LET results == ListObjectsV2(objects, r.folder.fullPath, <<"/">>, r.token)
              IN  IF ~results.Contents.defined
                    THEN ListingCaught(r, "TypeError") /\ UNCHANGED mints
                    ELSE /\ mints' = SpawnMints(mints, results.Contents.items, r.folder)
                         /\ IF results.IsTruncated
                              THEN ListingLoops(r, results)
                              ELSE ListingFinished(r)
  /\ UNCHANGED << route, currentFolder, files, folders, folderVars, uploadVars, walkVars,
                  tagVars, removeVars, objects >>

\* getSignedUrl resolves for one file: setFiles((files) => files ? [...files, f] : [f])
AppendFile(cell, f) == List(IF cell.isNull THEN <<f>> ELSE Append(cell.items, f))

MintResolves(f) ==
  /\ BagIn(f, mints)
  /\ mints' = mints (-) SetToBag({f})
  /\ files' = AppendFile(files, f)
  /\ sent' = <<>>
  /\ lastCall' = Step
  /\ UNCHANGED << route, currentFolder, folders, loading, runs, visits, folderVars,
                  uploadVars, walkVars, tagVars, removeVars, objects >>

\* ------------------------------------------------------------ folder index

\* addFolder(name) (lines 79-98). With folders still null the updater of
\* setFolders spreads null and throws, so the call is modelled once the
\* listing has set folders.
AddFolder(name) ==
  /\ ~currentFolder.isNull
  /\ ~folders.isNull
  /\ Len(localStorage) < MaxLocalFolders
  /\ DecodeURIComponent(currentFolder.folder.fullPath) # <<"URIError">>
  /\ LET cf == currentFolder.folder
         path == IF cf.fullPath # <<>>
                   THEN DecodeURIComponent(cf.fullPath) \o name \o <<"/">>
                   ELSE name \o <<"/">>
         newFolder == [fullPath |-> path, name |-> name, parent |-> cf.fullPath]
     IN  /\ folders' = List(Append(folders.items, newFolder))
         /\ localStorage' = Append(localStorage, newFolder)
  /\ sent' = <<>>
  /\ lastCall' = Call("addFolder", name, "ok")
  /\ UNCHANGED << route, currentFolder, files, loading, runs, mints, visits, uploadVars,
                  walkVars, tagVars, removeVars, objects >>

\* The index entries removeFolder keeps: !f.fullPath.includes(folder.fullPath)
IndexWithoutExact(local, folder) == SelectSeq(local, LAMBDA f : f.fullPath # folder.fullPath)
IndexWithout(local, folder) == SelectSeq(local, LAMBDA f : ~Includes(f.fullPath, folder.fullPath))

\* A frame of emptyS3Directory suspended at its first await.
CallFrame(Prefix) ==
  [Prefix |-> Prefix, pc |-> "list", i |-> 0,
   listed |-> ListObjectsV2({}, <<>>, NoDelimiter, NoToken)]

\* removeFolder(folder) up to the first request of emptyS3Directory
\* (lines 100-113 and 474-476). One recursive delete runs at a time. The
\* call is recorded with the folder index it found.
RemoveFolder(folder) ==
  /\ ~folders.isNull
  /\ folder \in Range(folders.items)
  /\ walkStatus # "running"
  /\ folders' = List(SelectSeq(folders.items, LAMBDA f : f.fullPath # folder.fullPath))
  /\ localStorage' = IndexWithout(localStorage, folder)
  /\ walk' = << CallFrame(folder.fullPath) >>
  /\ walkStatus' = "running"
  /\ walkRoot' = folder.fullPath
  /\ walkHad' = {k \in objects : StartsWith(k, folder.fullPath)}
  /\ walkLog' = << Req("list", folder.fullPath) >>
  /\ sent' = << Req("list", folder.fullPath) >>
  /\ lastCall' = Call("removeFolder", [fullPath |-> folder.fullPath, index |-> localStorage],
                      "pending")
  /\ UNCHANGED << route, currentFolder, files, loading, runs, mints, visits, uploadVars,
                  tagVars, removeVars, objects >>

\* --------------------------------------------------------- emptyS3Directory

\* The promise of removeFolder rejects: no frame has a catch.
WalkRejectsTopOnly(why) ==
  IF Len(walk) = 1
    THEN /\ walk' = <<>>
         /\ walkStatus' = why
         /\ sent' = <<>>
         /\ lastCall' = Call("removeFolder", walkRoot, why)
         /\ UNCHANGED << walkRoot, walkHad, walkLog, objects >>
    ELSE /\ walk' = SubSeq(walk, 1, Len(walk) - 2)
                      \o << [walk[Len(walk) - 1] EXCEPT !.pc = "return"] >>
         /\ sent' = <<>>
         /\ lastCall' = Step
         /\ UNCHANGED << walkStatus, walkRoot, walkHad, walkLog, objects >>
WalkRejects(why) ==
  /\ walk' = <<>>
  /\ walkStatus' = why
  /\ sent' = <<>>
  /\ lastCall' = Call("removeFolder", walkRoot, why)
  /\ UNCHANGED << walkRoot, walkHad, walkLog, objects >>

\* deleteParams.Delete.Objects: one entry per key of Contents (lines 486-490).
DeleteKeysButFirst(listed) == Range(Tail(listed.Contents.items))
DeleteKeys(listed) == Range(listed.Contents.items)

\* if (listedObjects.IsTruncated) (line 493)
MorePages(listed) == listed.IsTruncated

\* The body of emptyS3Directory from the for loop's step i + 1 on (lines
\* 478-492), for the frame on top of rest: recurse into the next common
\* prefix, or return, throw, or send the page's delete request.
WalkContinue(rest, frame, i) ==
  IF frame.listed.CommonPrefixes.defined /\ i < Len(frame.listed.CommonPrefixes.items)
    THEN LET child == frame.listed.CommonPrefixes.items[i + 1]
         IN  /\ walk' = rest \o << [frame EXCEPT !.pc = "child", !.i = i + 1], CallFrame(child) >>
             /\ walkLog' = Append(walkLog, Req("list", child))
             /\ sent' = << Req("list", child) >>
             /\ lastCall' = Step
             /\ UNCHANGED << walkStatus, walkRoot, walkHad, objects >>
  ELSE IF frame.listed.Contents.defined /\ Len(frame.listed.Contents.items) = 0
    THEN /\ walk' = rest \o << [frame EXCEPT !.pc = "return"] >>
         /\ sent' = <<>>
         /\ lastCall' = Step
         /\ UNCHANGED << walkStatus, walkRoot, walkHad, walkLog, objects >>
  ELSE IF ~frame.listed.Contents.defined
    THEN WalkRejects("TypeError")
  ELSE /\ walk' = rest \o << [frame EXCEPT !.pc = "delete"] >>
       /\ walkLog' = Append(walkLog, Req("delete", frame.Prefix))
       /\ sent' = << Req("delete", frame.Prefix) >>
       /\ lastCall' = Step
       /\ UNCHANGED << walkStatus, walkRoot, walkHad, objects >>

Top == walk[Len(walk)]
Below == SubSeq(walk, 1, Len(walk) - 1)

\* The list response of the top invocation arrives (line 476).
EmptyListed ==
  /\ walk # <<>> /\ Top.pc = "list"
  /\ \E ok \in BOOLEAN :
       IF ~ok THEN WalkRejects("StoreRequestError")
       ELSE WalkContinue(Below,
              [Top EXCEPT !.listed = ListObjectsV2(objects, Top.Prefix, NoDelimiter, NoToken)], 0)
  /\ UNCHANGED << sessionVars, folderVars, uploadVars, tagVars, removeVars >>

\* The delete response of the top invocation arrives (lines 492-493).
EmptyDeleted ==
  /\ walk # <<>> /\ Top.pc = "delete"
  /\ \E ok \in BOOLEAN :
       IF ~ok THEN WalkRejects("StoreRequestError")
       ELSE /\ objects' = objects \ DeleteKeys(Top.listed)
            /\ IF MorePages(Top.listed)
                 THEN /\ walk' = Below \o << [Top EXCEPT !.pc = "tail"], CallFrame(Top.Prefix) >>
                      /\ walkLog' = Append(walkLog, Req("list", Top.Prefix))
                      /\ sent' = << Req("list", Top.Prefix) >>
                 ELSE /\ walk' = Below \o << [Top EXCEPT !.pc = "return"] >>
                      /\ walkLog' = walkLog
                      /\ sent' = <<>>
            /\ lastCall' = Step
            /\ UNCHANGED << walkStatus, walkRoot, walkHad >>
  /\ UNCHANGED << sessionVars, folderVars, uploadVars, tagVars, removeVars >>

\* The top invocation returns and the awaiting one resumes: the for loop of
\* its caller goes on, the caller of a tail call returns in turn, and the
\* outermost return resolves the promise of removeFolder.
EmptyReturns ==
  /\ walk # <<>> /\ Top.pc = "return"
  /\ IF Len(walk) = 1
       THEN /\ walk' = <<>>
            /\ walkStatus' = "returned"
            /\ sent' = <<>>
            /\ lastCall' = Call("removeFolder", walkRoot, "ok")
            /\ UNCHANGED << walkRoot, walkHad, walkLog, objects >>
       ELSE LET caller == walk[Len(walk) - 1]
                rest == SubSeq(walk, 1, Len(walk) - 2)
            IN  IF caller.pc = "child"
                  THEN WalkContinue(rest, caller, caller.i)
                  ELSE /\ walk' = rest \o << [caller EXCEPT !.pc = "return"] >>
                       /\ sent' = <<>>
                       /\ lastCall' = Step
                       /\ UNCHANGED << walkStatus, walkRoot, walkHad, walkLog, objects >>
  /\ UNCHANGED << sessionVars, folderVars, uploadVars, tagVars, removeVars >>

\* ------------------------------------------------------------------ uploads

\* The names of the files the user picks.
FileNames == { <<"a">>, <<"c">>, <<"c", "#">> }

\* /[#\$\[\]\*/]/.test(file.name)
ReservedChars == {"#", "$", "[", "]", "*", "/"}
HasSpecialCharacter(name) == \E i \in 1..Len(name) : name[i] \in ReservedChars

\* files?.filter((f) => f.name === file.name).length > 0
NameNeverExists(cell, name) == FALSE
NameExists(cell, name) ==
  ~cell.isNull /\ Len(SelectSeq(cell.items, LAMBDA f : f.name = name)) > 0

\* The Key of an upload started in folder cf.
UploadKey(cf, name) ==
  IF cf = ROOT_FOLDER THEN name ELSE DecodeURIComponent(cf.fullPath) \o name

\* progress.loaded / progress.total * 100 with two decimals, in hundredths of
\* a percent, for loaded of total parts.
Percent(loaded, total) == (loaded * 10000 * 2 + total) \div (2 * total)

\* addFile of one file (lines 116-223): the two checks, then the task, its
\* handlers and upload.start().
AddFile(name) ==
  /\ ~currentFolder.isNull
  /\ IF HasSpecialCharacter(name)
       THEN /\ lastCall' = Call("addFile", name, "special characters")
            /\ sent' = <<>>
            /\ UNCHANGED tasks
     ELSE IF NameExists(files, name)
       THEN /\ lastCall' = Call("addFile", name, "same name")
            /\ sent' = <<>>
            /\ UNCHANGED tasks
     ELSE /\ Len(tasks) < MaxUploads
          /\ DecodeURIComponent(currentFolder.folder.fullPath) # <<"URIError">>
          /\ LET Key == UploadKey(currentFolder.folder, name)
             IN  /\ tasks' = Append(tasks,
                       [ name |-> name, Key |-> Key, parent |-> currentFolder.folder.fullPath,
                         state |-> "created", loaded |-> 0, dismissed |-> FALSE ])
                 /\ sent' = << Req("upload", Key) >>
          /\ lastCall' = Call("addFile", name, "started")
  /\ UNCHANGED << sessionVars, folderVars, uploadingFiles, walkVars, tagVars, removeVars, objects >>

TaskIds == 1..Len(tasks)

UploadUnchanged == UNCHANGED << sessionVars, folderVars, walkVars, tagVars, removeVars, objects >>

\* The task emits initiated; upload.on("initiated") (lines 141-155).
UploadInitiatedShowsFile(id) ==
  /\ tasks[id].state = "created"
  /\ tasks' = [tasks EXCEPT ![id].state = "running"]
  /\ uploadingFiles' = Append(uploadingFiles,
       [ id |-> id, name |-> tasks[id].name, key |-> tasks[id].Key, state |-> "running",
         progress |-> 0, error |-> FALSE ])
  /\ files' = AppendFile(files,
       [ fullPath |-> tasks[id].Key, name |-> tasks[id].name, parent |-> tasks[id].parent,
         uploadId |-> id ])
  /\ sent' = <<>>
  /\ lastCall' = Step
  /\ UNCHANGED << route, currentFolder, folders, loading, runs, mints, visits, folderVars,
                  walkVars, tagVars, removeVars, objects >>
UploadInitiated(id) ==
  /\ tasks[id].state = "created"
  /\ tasks' = [tasks EXCEPT ![id].state = "running"]
  /\ uploadingFiles' = Append(uploadingFiles,
       [ id |-> id, name |-> tasks[id].name, key |-> tasks[id].Key, state |-> "running",
         progress |-> 0, error |-> FALSE ])
  /\ sent' = <<>>
  /\ lastCall' = Step
  /\ UploadUnchanged

\* The task emits progress after a part; upload.on("progress") (lines 157-171).
UploadProgress(id) ==
  /\ tasks[id].state = "running"
  /\ tasks[id].loaded < MaxParts
  /\ tasks' = [tasks EXCEPT ![id].loaded = @ + 1]
  /\ uploadingFiles' = [i \in 1..Len(uploadingFiles) |->
       IF uploadingFiles[i].id = id
         THEN [uploadingFiles[i] EXCEPT !.state = "running", !.progress = Percent(tasks[id].loaded + 1, MaxParts)]
         ELSE uploadingFiles[i]]
  /\ sent' = <<>>
  /\ lastCall' = Step
  /\ UploadUnchanged

\* task.pause() and the paused event; upload.on("paused") (lines 173-179).
UploadPaused(id) ==
  /\ tasks[id].state = "running"
  /\ tasks' = [tasks EXCEPT ![id].state = "paused"]
  /\ uploadingFiles' = [i \in 1..Len(uploadingFiles) |->
       IF uploadingFiles[i].id = id
         THEN [uploadingFiles[i] EXCEPT !.state = "paused"]
         ELSE uploadingFiles[i]]
  /\ sent' = <<>>
  /\ lastCall' = Step
  /\ UploadUnchanged

\* task.resume() and the resumed event; upload.on("resumed") (lines 181-187).
UploadResumed(id) ==
  /\ tasks[id].state = "paused"
  /\ tasks' = [tasks EXCEPT ![id].state = "running"]
  /\ uploadingFiles' = [i \in 1..Len(uploadingFiles) |->
       IF uploadingFiles[i].id = id
         THEN [uploadingFiles[i] EXCEPT !.state = "running"]
         ELSE uploadingFiles[i]]
  /\ sent' = <<>>
  /\ lastCall' = Step
  /\ UploadUnchanged

\* A part fails and the task emits error; upload.on("error") (lines 189-197).
UploadErrorDropsEntry(id) ==
  /\ tasks[id].state = "running"
  /\ tasks' = [tasks EXCEPT ![id].state = "error"]
  /\ uploadingFiles' = SelectSeq(uploadingFiles, LAMBDA u : u.id # id)
  /\ sent' = <<>>
  /\ lastCall' = Step
  /\ UploadUnchanged
UploadError(id) ==
  /\ tasks[id].state = "running"
  /\ tasks' = [tasks EXCEPT ![id].state = "error"]
  /\ uploadingFiles' = [i \in 1..Len(uploadingFiles) |->
       IF uploadingFiles[i].id = id
         THEN [uploadingFiles[i] EXCEPT !.error = TRUE]
         ELSE uploadingFiles[i]]
  /\ sent' = <<>>
  /\ lastCall' = Step
  /\ UploadUnchanged

\* The last part is stored and the task emits completed; upload.on("completed")
\* up to its await of getSignedUrl (lines 199-216). The setFiles of lines
\* 219-220 is the callback MintResolves resumes.
UploadCompleted(id) ==
  /\ tasks[id].state = "running"
  /\ tasks[id].loaded = MaxParts
  /\ tasks' = [tasks EXCEPT ![id].state = "completed"]
  /\ objects' = objects \cup {tasks[id].Key}
  /\ uploadingFiles' = SelectSeq(uploadingFiles, LAMBDA u : u.id # id)
  /\ mints' = mints (+) SetToBag({
       [ fullPath |-> tasks[id].Key, name |-> tasks[id].name, parent |-> tasks[id].parent,
         uploadId |-> id ] })
  /\ sent' = <<>>
  /\ lastCall' = Step
  /\ UNCHANGED << route, currentFolder, folders, files, loading, runs, visits, folderVars,
                  walkVars, tagVars, removeVars >>

\* The caller dismisses a failed upload through setUploadingFiles (line 456).
Dismiss(id) ==
  /\ tasks[id].state = "error"
  /\ ~tasks[id].dismissed
  /\ tasks' = [tasks EXCEPT ![id].dismissed = TRUE]
  /\ uploadingFiles' = SelectSeq(uploadingFiles, LAMBDA u : u.id # id)
  /\ sent' = <<>>
  /\ lastCall' = Call("dismiss", <<>>, "ok")
  /\ UploadUnchanged

\* --------------------------------------------------------------- removeFile

\* removeFile(file) up to its await (lines 227-229): the setFiles filter, then
\* the delete-object request. With files still null the updater throws, so
\* the call is modelled for a file of the list.
RemoveFile(file) ==
  /\ ~files.isNull
  /\ file \in Range(files.items)
  /\ files' = List(SelectSeq(files.items, LAMBDA f : f.fullPath # file.fullPath))
  /\ removing' = removing (+) SetToBag({file.fullPath})
  /\ sent' = << Req("deleteObject", file.fullPath) >>
  /\ lastCall' = Call("removeFile", [fullPath |-> file.fullPath, failed |-> FALSE], "pending")
  /\ UNCHANGED << route, currentFolder, folders, loading, runs, mints, visits, folderVars,
                  uploadVars, walkVars, tagVars, objects >>

\* The delete-object response of a removeFile arrives (lines 229-230): the
\* call returns true, or the await throws and the promise of removeFile
\* rejects, as no try encloses it.
RemoveFileResponds(key) ==
  /\ BagIn(key, removing)
  /\ removing' = removing (-) SetToBag({key})
  /\ \E ok \in BOOLEAN :
       IF ok
         THEN /\ objects' = objects \ {key}
              /\ lastCall' = Call("removeFile", [fullPath |-> key, failed |-> FALSE], "true")
         ELSE /\ objects' = objects
              /\ lastCall' = Call("removeFile", [fullPath |-> key, failed |-> TRUE], "throw")
  /\ sent' = <<>>
  /\ UNCHANGED << sessionVars, folderVars, uploadVars, walkVars, tagVars >>

\* --------------------------------------------------------------------- tags

\* The keys and values the caller passes, and the keys a stored tag may have.
TagKeys == { <<" ">>, <<"a">>, <<" ", "a">> }
TagValues == { <<"1">>, <<"2">> }
StoredTagKeys == { <<"a">>, <<" ", "a">>, <<"b">> }
Tags == [key : TagKeys, value : TagValues]

\* The file the tag calls are about.
TaggedFile == DriveFileOf(<<"a">>, ROOT_FOLDER)

\* The most requests one tag call sends (editTags: two by removeTags, two by
\* each addTags), and the outcomes of the requests of a call in the order it
\* sends them (TRUE: the request succeeds), with at most MaxFailures failures.
MaxTagRequests == 2 + 2 + 2
Outcomes ==
  { oks \in [1..MaxTagRequests -> BOOLEAN] :
      Cardinality({n \in 1..MaxTagRequests : ~oks[n]}) <= MaxFailures }
\* Whether one of the first n requests of a call fails.
Failed(oks, n) == \E m \in 1..n : ~oks[m]

\* put-object-tagging: the store keeps one tag per key, the last one written.
PutObjectTagging(TagSet) ==
  LET last(i) == \A j \in (i + 1)..Len(TagSet) : TagSet[j].Key # TagSet[i].Key
      kept == {i \in 1..Len(TagSet) : last(i)}
      RECURSIVE Pick(_)
      Pick(i) == IF i > Len(TagSet) THEN <<>>
                 ELSE (IF i \in kept THEN <<TagSet[i]>> ELSE <<>>) \o Pick(i + 1)
  IN  Pick(1)

\* The outcome of a tag function: the tag set it leaves, what it returns
\* ("true", "false", or "throw" for a rejected promise), the requests it sent
\* and how many outcomes it used.
Outcome(tags, ret, reqs) == [tags |-> tags, ret |-> ret, reqs |-> reqs]

\* addTags(file, key, value) (lines 252-279), the requests from number n on.
addTags(tags, key, value, oks, n) ==
  IF Trim(key) = <<>> THEN Outcome(tags, "false", <<>>)
  ELSE IF ~oks[n] THEN Outcome(tags, "throw", << Req("getTagging", TaggedFile.fullPath) >>)
  ELSE IF ~oks[n + 1]
    THEN Outcome(tags, "false", << Req("getTagging", TaggedFile.fullPath),
                                   Req("putTagging", TaggedFile.fullPath) >>)
  ELSE Outcome(PutObjectTagging(Append(tags, [Key |-> Trim(key), Value |-> value])), "true",
               << Req("getTagging", TaggedFile.fullPath), Req("putTagging", TaggedFile.fullPath) >>)

\* removeTags(file, key) (lines 300-320), the requests from number n on.
removeTagsTrimmedKey(tags, key, oks, n) ==
  IF ~oks[n] THEN Outcome(tags, "throw", << Req("getTagging", TaggedFile.fullPath) >>)
  ELSE IF ~oks[n + 1]
    THEN Outcome(tags, "false", << Req("getTagging", TaggedFile.fullPath),
                                   Req("putTagging", TaggedFile.fullPath) >>)
  ELSE Outcome(PutObjectTagging(SelectSeq(tags, LAMBDA tag : tag.Key # Trim(key))), "true",
               << Req("getTagging", TaggedFile.fullPath), Req("putTagging", TaggedFile.fullPath) >>)
removeTags(tags, key, oks, n) ==
  IF ~oks[n] THEN Outcome(tags, "throw", << Req("getTagging", TaggedFile.fullPath) >>)
  ELSE IF ~oks[n + 1]
    THEN Outcome(tags, "false", << Req("getTagging", TaggedFile.fullPath),
                                   Req("putTagging", TaggedFile.fullPath) >>)
  ELSE Outcome(PutObjectTagging(SelectSeq(tags, LAMBDA tag : tag.Key # key)), "true",
               << Req("getTagging", TaggedFile.fullPath), Req("putTagging", TaggedFile.fullPath) >>)

\* editTags(file, prevTag, newTag) (lines 282-297).
editTags(tags, prevTag, newTag, oks) ==
  LET removed == removeTags(tags, prevTag.key, oks, 1)
  IN  IF removed.ret # "true" THEN removed
      ELSE LET added == addTags(removed.tags, newTag.key, newTag.value, oks, 3)
               sentSoFar == removed.reqs \o added.reqs
           IN  IF added.ret = "true" THEN Outcome(added.tags, "true", sentSoFar)
               ELSE IF added.ret = "throw" THEN Outcome(added.tags, "throw", sentSoFar)
               ELSE LET back == addTags(added.tags, prevTag.key, prevTag.value, oks,
                                        Len(sentSoFar) + 1)
                    IN  Outcome(back.tags, IF back.ret = "throw" THEN "throw" ELSE "false",
                                sentSoFar \o back.reqs)

TagCallDone(op, arg, out) ==
  /\ tagSet' = out.tags
  /\ sent' = out.reqs
  /\ lastCall' = Call(op, arg, out.ret)
  /\ UNCHANGED << sessionVars, folderVars, uploadVars, walkVars, removeVars, objects >>

AddTags(key, value, oks) ==
  LET out == addTags(tagSet, key, value, oks, 1)
  IN  TagCallDone("addTags", [key |-> key, value |-> value, failed |-> Failed(oks, Len(out.reqs))],
                  out)

\* had: the tag set held the key at the call; again: the call before this
\* one was a successful removeTags of the same key from a set that held it.
RemoveTags(key, oks) ==
  LET out == removeTags(tagSet, key, oks, 1)
      again == /\ lastCall.op = "removeTags"
               /\ lastCall.arg.key = key
               /\ lastCall.arg.had
               /\ lastCall.result = "true"
  IN  TagCallDone("removeTags",
                  [ key |-> key, failed |-> Failed(oks, Len(out.reqs)),
                    had |-> \E i \in 1..Len(tagSet) : tagSet[i].Key = key,
                    again |-> again ],
                  out)

\* addStep: what the add of newTag (line 288) came to, "none" when the
\* remove step did not succeed and the add was never called.
EditTags(prevTag, newTag, oks) ==
  LET out == editTags(tagSet, prevTag, newTag, oks)
      removed == removeTags(tagSet, prevTag.key, oks, 1)
      addStep == IF removed.ret = "true"
                   THEN addTags(removed.tags, newTag.key, newTag.value, oks, 3).ret
                   ELSE "none"
  IN  TagCallDone("editTags",
                  [ prevTag |-> prevTag, newTag |-> newTag,
                    failed |-> Failed(oks, Len(out.reqs)), addStep |-> addStep ],
                  out)

\* The tag sets a file may hold: one tag per key.
InitialTagSets ==
  { ts \in UNION { [1..n -> [Key : StoredTagKeys, Value : TagValues]] : n \in 0..MaxInitialTags } :
      \A i, j \in DOMAIN ts : ts[i].Key = ts[j].Key => i = j }

\* A session over a bucket that holds the one file, with any tag set.
InitTags ==
  /\ InitSession
  /\ objects = { TaggedFile.fullPath }
  /\ tagSet \in InitialTagSets

\* ------------------------------------------------------------ specifications

\* Navigation and the listing effect.
NextList ==
  \/ \E p \in Routes : Navigate(p)
  \/ \E r \in runs : ListingFirst(r)
  \/ \E r \in runs : ListingLoop(r)
  \/ \E f \in BagToSet(mints) : MintResolves(f)
SpecList == Init /\ [][NextList]_vars

\* Navigation, the listing effect and removeFile.
NextFiles ==
  \/ \E p \in Routes : Navigate(p)
  \/ \E r \in runs : ListingFirst(r)
  \/ \E r \in runs : ListingLoop(r)
  \/ \E f \in BagToSet(mints) : MintResolves(f)
  \/ \E file \in Range(files.items) : RemoveFile(file)
  \/ \E key \in BagToSet(removing) : RemoveFileResponds(key)
SpecFiles == Init /\ [][NextFiles]_vars

\* Navigation, the folder index and the recursive delete.
NextFolders ==
  \/ \E p \in Routes : Navigate(p)
  \/ \E r \in runs : ListingFirst(r)
  \/ \E r \in runs : ListingLoop(r)
  \/ \E name \in FolderNames : AddFolder(name)
  \/ \E folder \in Range(folders.items) : RemoveFolder(folder)
  \/ EmptyListed
  \/ EmptyDeleted
  \/ EmptyReturns
SpecFolders == Init /\ [][NextFolders]_vars

\* Navigation, the listing effect and uploads.
NextUpload ==
  \/ \E p \in Routes : Len(visits) < MaxUploadVisits /\ Navigate(p)
  \/ \E r \in runs : ListingFirst(r)
  \/ \E r \in runs : ListingLoop(r)
  \/ \E f \in BagToSet(mints) : MintResolves(f)
  \/ \E name \in FileNames : AddFile(name)
  \/ \E id \in TaskIds : UploadInitiated(id)
  \/ \E id \in TaskIds : UploadProgress(id)
  \/ \E id \in TaskIds : UploadPaused(id)
  \/ \E id \in TaskIds : UploadResumed(id)
  \/ \E id \in TaskIds : UploadError(id)
  \/ \E id \in TaskIds : UploadCompleted(id)
  \/ \E id \in TaskIds : Dismiss(id)
SpecUpload == Init /\ [][NextUpload]_vars

\* The tag calls on one file, one caller at a time.
NextTags ==
  \/ \E key \in TagKeys, value \in TagValues, oks \in Outcomes : AddTags(key, value, oks)
  \/ \E key \in TagKeys, oks \in Outcomes : RemoveTags(key, oks)
  \/ \E prevTag \in Tags, newTag \in Tags, oks \in Outcomes : EditTags(prevTag, newTag, oks)
SpecTags == InitTags /\ [][NextTags]_vars
\* ------------------------------------------------------------------ claims

\* Whether no value occurs twice in a sequence.
NoDuplicates(seq) == \A i, j \in 1..Len(seq) : seq[i] = seq[j] => i = j

FullPaths(list) == [i \in 1..Len(list) |-> list[i].fullPath]

\* Every page of a listing, following NextContinuationToken.
RECURSIVE AllPages(_, _, _, _)
AllPages(objs, Prefix, Delimiter, Token) ==
  LET r == ListObjectsV2(objs, Prefix, Delimiter, Token)
  IN  IF r.IsTruncated
        THEN <<r>> \o AllPages(objs, Prefix, Delimiter, r.NextContinuationToken)
        ELSE <<r>>

RECURSIVE PagesContents(_)
PagesContents(pages) ==
  IF pages = <<>> THEN {}
  ELSE Range(Head(pages).Contents.items) \cup PagesContents(Tail(pages))
RECURSIVE PagesPrefixes(_)
PagesPrefixes(pages) ==
  IF pages = <<>> THEN {}
  ELSE Range(Head(pages).CommonPrefixes.items) \cup PagesPrefixes(Tail(pages))

\* The pages of the delimiter listing of the current folder.
CurrentPages == AllPages(objects, currentFolder.folder.fullPath, <<"/">>, NoToken)

\* The listing effect of the first folder visit is through and every
\* callback it started has set its file.
FirstVisitListed == Len(visits) = 1 /\ visits[1] = "done" /\ mints = EmptyBag

\* C1: for a folder visit whose listing is a chain of N pages, the merged
\* result holds each key and each folder prefix of the N pages exactly once:
\* no key is ever merged twice, and once the effect and its callbacks are
\* through, files and folders are the union of the pages. Stated for the
\* first visit of a session, which no earlier visit can disturb.
C1_MergedEqualsUnionOfPages ==
  Len(visits) = 1 =>
    /\ NoDuplicates(FullPaths(files.items))
    /\ NoDuplicates(FullPaths(folders.items))
    /\ FirstVisitListed =>
         /\ Range(FullPaths(files.items)) = PagesContents(CurrentPages)
         /\ Range(FullPaths(folders.items)) = PagesPrefixes(CurrentPages)

\* C2: once emptyS3Directory(prefix) has returned, no key that starts with
\* the prefix is left, and a listing of the prefix returns neither contents
\* nor common prefixes.
C2_DeletedPrefixListsEmpty ==
  walkStatus = "returned" =>
    /\ \A k \in objects : ~StartsWith(k, walkRoot)
    /\ LET r == ListObjectsV2(objects, walkRoot, <<"/">>, NoToken)
       IN  ~r.Contents.defined /\ ~r.CommonPrefixes.defined

\* A recursive delete returned after deleting a prefix that held more keys
\* than one page, some of them in a nested folder.
C2_Witness ==
  /\ walkStatus = "returned"
  /\ Cardinality(walkHad) > MaxKeys
  /\ \E k \in walkHad : IndexOfSlash(SubSeq(k, Len(walkRoot) + 1, Len(k)), 1) # 0
  /\ Cardinality({i \in 1..Len(walkLog) : walkLog[i].kind = "delete"}) >= 2

\* C3: emptyS3Directory on a prefix under which the store holds no object
\* completes normally, without an error and without a delete request.
C3_EmptyPrefixIsNoop ==
  (walkHad = {} /\ walkStatus \notin {"idle", "running", "StoreRequestError"}) =>
    /\ walkStatus = "returned"
    /\ \A i \in 1..Len(walkLog) : walkLog[i].kind # "delete"

\* C4: once the listing of the current folder visit has completed, the
\* folders view holds each child folder fullPath exactly once.
C4_FoldersListedOnce ==
  (visits # <<>> /\ visits[Len(visits)] = "done" /\ ~folders.isNull) =>
    NoDuplicates(FullPaths(folders.items))

\* C5: an entry for an upload started by addFile is appended to files only
\* after the task has emitted completed, by which time the store holds the
\* object; none is appended for a created, running, paused or failed upload.
C5_FilesOnlyAfterCompleted ==
  \A f \in Range(files.items) :
    f.uploadId # 0 =>
      /\ f.uploadId \in TaskIds
      /\ tasks[f.uploadId].state = "completed"
      /\ f.fullPath = tasks[f.uploadId].Key

\* The file of a completed upload is in files while another upload of the
\* session has failed.
C5_Witness ==
  /\ \E f \in Range(files.items) : f.uploadId # 0
  /\ \E id \in TaskIds : tasks[id].state = "error"

UploadingEntries(id) == SelectSeq(uploadingFiles, LAMBDA u : u.id = id)

\* C6: the UploadingFile of a task is in uploadingFiles from initiated on (and
\* not before), is gone once the task has completed, and after an error stays
\* with error = true until the caller dismisses it.
C6_UploadingFileLifecycle ==
  \A id \in TaskIds :
    LET entries == UploadingEntries(id)
    IN  /\ tasks[id].state = "created" => entries = <<>>
        /\ tasks[id].state \in {"running", "paused"} =>
             Len(entries) = 1 /\ ~entries[1].error /\ entries[1].state = tasks[id].state
        /\ tasks[id].state = "completed" => entries = <<>>
        /\ (tasks[id].state = "error" /\ ~tasks[id].dismissed) =>
             Len(entries) = 1 /\ entries[1].error
        /\ (tasks[id].state = "error" /\ tasks[id].dismissed) => entries = <<>>

\* One upload has completed and another has failed, with their events
\* interleaved, and the failed one is still shown.
C6_Witness ==
  /\ \E id \in TaskIds : tasks[id].state = "completed"
  /\ \E id \in TaskIds : tasks[id].state = "error" /\ ~tasks[id].dismissed
  /\ Len(uploadingFiles) = 1

\* C7: no two entries of files share a name. Stated for the entries that
\* uploads of this session appended, within one folder visit.
C7_FileNamesUnique ==
  \A i, j \in 1..Len(files.items) :
    (i # j /\ files.items[i].uploadId # 0 /\ files.items[j].uploadId # 0) =>
      files.items[i].name # files.items[j].name

\* The reserved characters of a file name, as the specification lists them.
NameIsIllegal(name) == \E i \in 1..Len(name) : name[i] \in {"#", "$", "[", "]", "*", "/"}
NameIsLoaded(name) == \E i \in 1..Len(files.items) : files.items[i].name = name

\* C8: an addFile of a name that holds a reserved character or is the name
\* of a loaded file creates no task, sends no request and leaves files,
\* folders and uploadingFiles (and all else of the session) as they were.
C8_RejectedAddFileMutatesNothing ==
  [][ (lastCall'.op = "addFile" /\ (NameIsIllegal(lastCall'.arg) \/ NameIsLoaded(lastCall'.arg)))
        => /\ sent' = <<>>
           /\ UNCHANGED << files, folders, uploadingFiles, tasks, mints, runs, objects,
                           currentFolder, loading, localStorage >> ]_vars

\* An addFile was refused for the name of a loaded file while an upload runs.
C8_Witness ==
  /\ lastCall.op = "addFile" /\ lastCall.result = "same name"
  /\ NameIsLoaded(lastCall.arg)
  /\ uploadingFiles # <<>>

\* Whether a key is blank after trimming: it holds white space only.
IsBlank(key) == \A i \in 1..Len(key) : key[i] = " "

\* C9: addTags with a key that is blank after trimming returns false, sends
\* neither a get-object-tagging nor a put-object-tagging request and leaves
\* the tag set of the file as it was.
C9_BlankKeyAddTagsSendsNothing ==
  [][ (lastCall'.op = "addTags" /\ IsBlank(lastCall'.arg.key))
        => /\ lastCall'.result = "false"
           /\ sent' = <<>>
           /\ tagSet' = tagSet ]_vars

\* addTags was refused for a key of white space on a file that has tags.
C9_Witness ==
  /\ lastCall.op = "addTags"
  /\ lastCall.arg.key = <<" ">>
  /\ lastCall.result = "false"
  /\ tagSet # <<>>

HasTag(tags, tag) == \E i \in 1..Len(tags) : tags[i].Key = tag.key /\ tags[i].Value = tag.value

\* C10: for a tag set that contains prevTag and a newTag whose key is blank
\* after trimming, with every request succeeding, editTags returns false and
\* the file ends with the tags it had, prevTag with its value among them.
C10_EditToBlankKeyKeepsTags ==
  [][ ( /\ lastCall'.op = "editTags"
        /\ IsBlank(lastCall'.arg.newTag.key)
        /\ ~lastCall'.arg.failed
        /\ HasTag(tagSet, lastCall'.arg.prevTag) )
        => /\ lastCall'.result = "false"
           /\ HasTag(tagSet', lastCall'.arg.prevTag)
           /\ Range(tagSet') = Range(tagSet) ]_vars

\* The tag set without every entry of a key.
WithoutKey(tags, key) ==
  LET RECURSIVE Rest(_)
      Rest(i) == IF i > Len(tags) THEN <<>>
                 ELSE (IF tags[i].Key = key THEN <<>> ELSE <<tags[i]>>) \o Rest(i + 1)
  IN  Rest(1)

\* C11: with the store requests succeeding and one caller, removeTags(file,
\* key) leaves the tag set without every entry of that key (the set it was
\* when the key was absent), and a second removeTags of the same key right
\* after it leaves the set the first call left.
C11_RemoveTagsIdempotent ==
  [][ (lastCall'.op = "removeTags" /\ ~lastCall'.arg.failed)
        => /\ lastCall'.result = "true"
           /\ tagSet' = WithoutKey(tagSet, lastCall'.arg.key)
           /\ ~lastCall'.arg.had => tagSet' = tagSet
           /\ lastCall'.arg.again => tagSet' = tagSet ]_vars

\* removeTags of a key succeeded twice in a row; the first call removed the
\* tag of that key and other tags of the file are left.
C11_Witness ==
  /\ lastCall.op = "removeTags"
  /\ lastCall.arg.again
  /\ lastCall.result = "true"
  /\ tagSet # <<>>

\* The recursive delete has ended with an error.
WalkFailed == walkStatus \notin {"idle", "running", "returned"}

\* C12: when a delete-objects request of emptyS3Directory fails (the walk
\* awaits a delete response and its step deletes nothing), every invocation
\* of the walk is gone, the step sends no request, and removeFolder rejects
\* with the error; a walk that has failed sends no request afterwards.
C12_FailedDeleteAbortsWalk ==
  [][ /\ (walk # <<>> /\ Top.pc = "delete" /\ walk' # walk /\ objects' = objects)
         => /\ walk' = <<>>
            /\ sent' = <<>>
            /\ walkLog' = walkLog
            /\ WalkFailed'
            /\ lastCall' = Call("removeFolder", walkRoot, walkStatus')
      /\ (WalkFailed /\ walkStatus' = walkStatus)
         => walk' = <<>> /\ walkLog' = walkLog ]_vars

\* The delete request of a later page failed, in an invocation that an
\* enclosing one awaited: the walk has ended with the error after one delete
\* that succeeded, and keys of the prefix are left in the bucket.
C12_Witness ==
  /\ walkStatus = "StoreRequestError"
  /\ walk = <<>>
  /\ walkLog[Len(walkLog)].kind = "delete"
  /\ Cardinality({i \in 1..Len(walkLog) : walkLog[i].kind = "delete"}) >= 2
  /\ \E k \in walkHad : k \in objects

\* The delimiter listing of the current folder returns neither contents nor
\* common prefixes, and the folder index holds no child of the folder.
CurrentFolderIsEmpty ==
  /\ LET r == ListObjectsV2(objects, currentFolder.folder.fullPath, <<"/">>, NoToken)
     IN  ~r.Contents.defined /\ ~r.CommonPrefixes.defined
  /\ \A i \in 1..Len(localStorage) : localStorage[i].parent # currentFolder.folder.fullPath

\* C13: when the visit of a folder without children has ended (the first
\* visit of a session, its listing effect through), no error was caught and
\* files and folders are both empty collections.
C13_EmptyFolderListsEmptyArrays ==
  (Len(visits) = 1 /\ visits[1] \notin {"loading", "StoreRequestError"} /\ CurrentFolderIsEmpty)
    => /\ visits[1] = "done"
       /\ ~folders.isNull /\ folders.items = <<>>
       /\ ~files.isNull /\ files.items = <<>>

\* Whether sub occurs in s as a substring.
Contains(s, sub) ==
  \E i \in 1..(Len(s) - Len(sub) + 1) : \A j \in 1..Len(sub) : s[i + j - 1] = sub[j]

\* C14: removeFolder(folder) leaves in the folder index the entries whose
\* fullPath does not contain folder.fullPath, unchanged and in their order,
\* and removes every other entry; from the folders list it removes only the
\* entries whose fullPath equals folder.fullPath.
C14_RemoveFolderFiltersIndexBySubstring ==
  [][ (lastCall'.op = "removeFolder" /\ lastCall'.result = "pending")
        => LET path == lastCall'.arg.fullPath
           IN  /\ localStorage' =
                    SelectSeq(localStorage, LAMBDA f : ~Contains(f.fullPath, path))
               /\ ~folders'.isNull
               /\ folders'.items = SelectSeq(folders.items, LAMBDA f : f.fullPath # path) ]_vars

\* removeFolder dropped an index entry of another branch of the tree, whose
\* fullPath contains the path of the removed folder without starting with it.
C14_Witness ==
  /\ lastCall.op = "removeFolder"
  /\ lastCall.result = "pending"
  /\ \E e \in Range(lastCall.arg.index) :
       /\ Contains(e.fullPath, lastCall.arg.fullPath)
       /\ ~StartsWith(e.fullPath, lastCall.arg.fullPath)
       /\ e \notin Range(localStorage)
  /\ \E e \in Range(lastCall.arg.index) : e.fullPath = lastCall.arg.fullPath

\* The DriveFolders the session has built: the current folder set on
\* navigation (ROOT_FOLDER is a constant, not built), the folders list and
\* the folder index.
BuiltFolders ==
  (IF currentFolder.isNull \/ currentFolder.folder = ROOT_FOLDER THEN {} ELSE {currentFolder.folder})
    \cup Range(folders.items) \cup Range(localStorage)

\* C15: every DriveFolder the session builds has a fullPath that ends in
\* "/" and is its parent's fullPath followed by its name and "/".
C15_FolderPathIsParentPlusName ==
  \A f \in BuiltFolders :
    /\ f.fullPath # <<>>
    /\ f.fullPath[Len(f.fullPath)] = "/"
    /\ f.fullPath = f.parent \o f.name \o <<"/">>

\* The requests editTags has sent when the add of newTag has come to addStep
\* after a remove step that succeeded: two by removeTags, and by addTags
\* none for a blank key, one when the tag read failed, else two.
RequestsUpToAddStep(newTag, addStep) ==
  2 + (IF IsBlank(newTag.key) THEN 0 ELSE IF addStep = "throw" THEN 1 ELSE 2)

\* C16: when the remove step of editTags has succeeded and the add of newTag
\* fails (a blank key, a failed tag read or a failed tag write), editTags
\* does not report success and attempts the add of prevTag: for a prevTag
\* whose key is not blank, it sends the tag read of that add.
C16_FailedAddIsCompensated ==
  [][ (lastCall'.op = "editTags" /\ lastCall'.arg.addStep \in {"false", "throw"})
        => /\ lastCall'.result # "true"
           /\ ~IsBlank(lastCall'.arg.prevTag.key) =>
                /\ Len(sent') > RequestsUpToAddStep(lastCall'.arg.newTag, lastCall'.arg.addStep)
                /\ sent'[RequestsUpToAddStep(lastCall'.arg.newTag, lastCall'.arg.addStep) + 1].kind
                     = "getTagging" ]_vars

\* C18: removeFile takes the file off the files list in the step that sends
\* the delete-object request, before the store has deleted anything; when
\* the request fails the list is not restored while the store still holds
\* the object, and the failure does not reach the caller of removeFile as an
\* error.
C18_RemoveFileIsOptimisticAndSilent ==
  [][ /\ (lastCall'.op = "removeFile" /\ lastCall'.result = "pending")
         => /\ \A f \in Range(files'.items) : f.fullPath # lastCall'.arg.fullPath
            /\ sent' = << Req("deleteObject", lastCall'.arg.fullPath) >>
            /\ objects' = objects
      /\ (lastCall'.op = "removeFile" /\ lastCall'.arg.failed)
         => /\ files' = files
            /\ objects' = objects
            /\ lastCall'.result # "throw" ]_vars

\* The pages of the delimiter listing of the folder of a listing effect.
PagesOf(r) == AllPages(objects, r.folder.fullPath, <<"/">>, NoToken)

\* C19: a listing effect sends one list request per page of the listing of
\* its folder and no more, and each request of its loop carries the
\* continuation token the store gave with the page before, so that it
\* returns the next page; the effect therefore ends after the last page.
C19_OneRequestPerPage ==
  \A r \in runs :
    /\ r.loops + 1 <= Len(PagesOf(r))
    /\ r.pc = "loop" => r.token = PagesOf(r)[r.loops].NextContinuationToken

\* C20: whenever files is set, each of its entries has the current folder's
\* fullPath as its parent and a key under that prefix, whatever callbacks of
\* an earlier folder visit were pending at the navigation.
C20_FilesBelongToCurrentFolder ==
  ~files.isNull =>
    \A f \in Range(files.items) :
      /\ f.parent = currentFolder.folder.fullPath
      /\ StartsWith(f.fullPath, currentFolder.folder.fullPath)
====
